---- MODULE Spec2Model ----
(***************************************************************************)
(* create_project_structure() of project_setup.py, run against a model of  *)
(* the filesystem below the working directory.  The function is a straight *)
(* sequence of os.makedirs(..., exist_ok=True) and Path.touch() calls; the *)
(* model follows it one system call at a time (exists, mkdir, isdir,       *)
(* utime, open), so that other processes can be interleaved with it.       *)
(***************************************************************************)
EXTENDS Integers, Sequences, FiniteSets, TLC

(* ------------------------------ bounds -------------------------------- *)

\* invocations of create_project_structure() in one behaviour
MaxRuns == 2
\* changes made to the filesystem by the user or by other processes
MaxEnv == 1
\* distinct non-empty file contents (0 stands for a zero-byte file)
MaxBytes == 1

Contents == 0..MaxBytes

(* ----------------------------- manifest ------------------------------- *)

base_path == "ap"

directories ==
    << "data/raw", "data/processed", "data/output",
       "src/data_processing", "src/clustering", "tests" >>

init_locations ==
    << "src", "src/data_processing", "src/clustering", "tests" >>

files_to_create ==
    << "requirements.txt", "main.py", "src/config.py",
       "src/data_processing/data_processor.py",
       "src/data_processing/feature_engineering.py",
       "src/data_processing/utils.py",
       "src/clustering/hierarchical_clustering.py",
       "src/clustering/visualization.py" >>

\* pathlib's "/" operator: base_path / rel
Join(a, b) == a \o "/" \o b

NDirs == Len(directories)
NInit == Len(init_locations)
NFiles == Len(files_to_create)
NTotal == NDirs + NInit + NFiles

\* The paths the three loops hand to os.makedirs and Path.touch, in order.
Targets ==
    [i \in 1..NTotal |->
        IF i <= NDirs THEN Join(base_path, directories[i])
        ELSE IF i <= NDirs + NInit
             THEN Join(Join(base_path, init_locations[i - NDirs]),
                       "__init__.py")
             ELSE Join(base_path, files_to_create[i - NDirs - NInit])]

\* The path the i-th filesystem request of the function is about.
Target(i) == Targets[i]

DirTargets == { Target(i) : i \in 1..NDirs }
MarkerTargets == { Target(i) : i \in (NDirs + 1)..(NDirs + NInit) }
OtherTargets == { Target(i) : i \in (NDirs + NInit + 1)..NTotal }
FileTargets == MarkerTargets \cup OtherTargets

\* Intermediate directories: parents of manifest entries.
InnerDirs == { "ap", "ap/data", "ap/src" }
AllDirs == InnerDirs \cup DirTargets
Paths == AllDirs \cup FileTargets

\* os.path.split(p)[0] for every path of the model
Heads ==
    [p \in Paths |->
        CASE p = "ap" -> ""
          [] p \in { "ap/data", "ap/src", "ap/tests",
                     "ap/requirements.txt", "ap/main.py" } -> "ap"
          [] p \in { "ap/data/raw", "ap/data/processed", "ap/data/output" }
               -> "ap/data"
          [] p \in { "ap/src/data_processing", "ap/src/clustering",
                     "ap/src/__init__.py", "ap/src/config.py" } -> "ap/src"
          [] p \in { "ap/src/data_processing/__init__.py",
                     "ap/src/data_processing/data_processor.py",
                     "ap/src/data_processing/feature_engineering.py",
                     "ap/src/data_processing/utils.py" }
               -> "ap/src/data_processing"
          [] p \in { "ap/src/clustering/__init__.py",
                     "ap/src/clustering/hierarchical_clustering.py",
                     "ap/src/clustering/visualization.py" }
               -> "ap/src/clustering"
          [] p = "ap/tests/__init__.py" -> "ap/tests"]

Dirname(p) == Heads[p]

\* The directory that holds p; the working directory is ".".
ParentDir(p) == IF Dirname(p) = "" THEN "." ELSE Dirname(p)

RECURSIVE Above(_)
Above(p) == IF Dirname(p) = "" THEN {} ELSE {Dirname(p)} \cup Above(Dirname(p))

\* The directories on the way from the working directory down to p.
AncestorSets == [p \in Paths |-> Above(p)]

Ancestors(p) == AncestorSets[p]

(* ---------------------------- filesystem ------------------------------ *)

VARIABLES
    kind,      \* kind[p] \in {"absent", "dir", "file"} for every path
    data,      \* data[p]: content of the file at p (0: zero bytes)
    ro,        \* directories without write permission ("." included)
    pc,        \* "idle", "makedirs", "touch", "done", "failed", "repaired"
    step,      \* the system call the run is about to issue
    idx,       \* the manifest entry the run is at (1..NTotal)
    stack,     \* os.makedirs recursion: names, innermost call last
    err,       \* errno of the pending or raised OSError
    preKind,   \* kind when the current run started
    preData,   \* data when the current run started
    mode,      \* what preceded the current run: the value of pc at its start
    runs,      \* invocations so far
    edits,     \* environment changes so far
    written    \* written[p]: bytes another process wrote at p (0: none)

vars == << kind, data, ro, pc, step, idx, stack, err,
           preKind, preData, mode, runs, edits, written >>

\* kind of p, the working directory being a directory that always exists
KindOf(k, p) == IF p = "." THEN "dir" ELSE k[p]

\* os.path.exists
Exists(k, p) == KindOf(k, p) # "absent"

\* os.path.exists in the place of os.path.isdir
IsDirOrFile(k, p) == KindOf(k, p) # "absent"

\* os.path.isdir
IsDir(k, p) == KindOf(k, p) = "dir"

\* os.mkdir that does not look at the write permission of the parent
MkdirErrnoNoAccess(k, r, name) ==
    CASE KindOf(k, ParentDir(name)) = "absent" -> "ENOENT"
      [] KindOf(k, ParentDir(name)) = "file" -> "ENOTDIR"
      [] k[name] # "absent" -> "EEXIST"
      [] OTHER -> "ok"

\* os.mkdir(name): the errno Linux answers with, "ok" when it creates
MkdirErrno(k, r, name) ==
    CASE KindOf(k, ParentDir(name)) = "absent" -> "ENOENT"
      [] KindOf(k, ParentDir(name)) = "file" -> "ENOTDIR"
      [] k[name] # "absent" -> "EEXIST"
      [] ParentDir(name) \in r -> "EACCES"
      [] OTHER -> "ok"

\* os.utime(path, None)
UtimeErrno(k, path) ==
    CASE KindOf(k, ParentDir(path)) = "file" -> "ENOTDIR"
      [] k[path] = "absent" -> "ENOENT"
      [] OTHER -> "ok"

\* os.open(path, O_CREAT | O_WRONLY)
OpenErrno(k, r, path) ==
    CASE KindOf(k, ParentDir(path)) = "absent" -> "ENOENT"
      [] KindOf(k, ParentDir(path)) = "file" -> "ENOTDIR"
      [] k[path] = "dir" -> "EISDIR"
      [] k[path] = "file" -> "ok"
      [] ParentDir(path) \in r -> "EACCES"
      [] OTHER -> "ok"

\* os.open with O_TRUNC added to the flags
OpenDataTrunc(k, d, path) == [d EXCEPT ![path] = 0]

\* Content of path after a successful os.open(path, O_CREAT | O_WRONLY):
\* a new file is empty, an existing one is not truncated.
OpenData(k, d, path) ==
    IF k[path] = "absent" THEN [d EXCEPT ![path] = 0] ELSE d

TypeOK ==
    /\ kind \in [Paths -> {"absent", "dir", "file"}]
    /\ data \in [Paths -> Contents]
    /\ ro \subseteq (AllDirs \cup {"."})
    /\ pc \in {"idle", "makedirs", "touch", "done", "failed", "repaired"}
    /\ idx \in 0..NTotal
    /\ runs \in 0..MaxRuns
    /\ edits \in 0..MaxEnv

Init ==
    /\ kind = [p \in Paths |-> "absent"]
    /\ data = [p \in Paths |-> 0]
    /\ ro = {}
    /\ pc = "idle"
    /\ step = "none"
    /\ idx = 0
    /\ stack = << >>
    /\ err = "none"
    /\ preKind = [p \in Paths |-> "absent"]
    /\ preData = [p \in Paths |-> 0]
    /\ mode = "idle"
    /\ runs = 0
    /\ edits = 0
    /\ written = [p \in Paths |-> 0]


(* ------------------------ create_project_structure -------------------- *)

\* os.makedirs called without exist_ok
exist_ok_default == FALSE

\* the exist_ok argument of os.makedirs
exist_ok == TRUE

\* touch written as open(path, "w").close(): an existing file is emptied
UtimeDataTrunc(k, d, path) ==
    IF k[path] = "file" THEN [d EXCEPT ![path] = 0] ELSE d

\* Content of path after a successful os.utime(path, None): only the
\* timestamps change.
UtimeData(k, d, path) == d

Finished == pc \in {"idle", "done", "failed", "repaired"}

\* The run moves to manifest entry i: the next iteration of one of the loops.
Enter(i) ==
    /\ idx' = i
    /\ pc' = IF i <= NDirs THEN "makedirs" ELSE "touch"
    /\ step' = IF i <= NDirs THEN "exists" ELSE "utime"
    /\ stack' = IF i <= NDirs THEN << Target(i) >> ELSE << >>

\* A function that returns after the marker files, without the third loop
AdvanceNoFiles ==
    IF idx < NDirs + NInit
    THEN Enter(idx + 1)
    ELSE /\ pc' = "done"
         /\ step' = "none"
         /\ stack' = << >>
         /\ idx' = idx

\* The request for entry idx returned: next entry, or return to the caller.
Advance ==
    IF idx < NTotal
    THEN Enter(idx + 1)
    ELSE /\ pc' = "done"
         /\ step' = "none"
         /\ stack' = << >>
         /\ idx' = idx

\* The loops wrapped in "try: ... except OSError: pass": the error is
\* dropped and the run goes on with the next entry.
RaiseSwallowed(e) ==
    /\ err' = e
    /\ Advance

\* An OSError leaves create_project_structure: nothing catches it.
Raise(e) ==
    /\ pc' = "failed"
    /\ step' = "none"
    /\ stack' = << >>
    /\ idx' = idx
    /\ err' = e

\* create_project_structure() is called.
Start ==
    /\ Finished
    /\ runs < MaxRuns
    /\ runs' = runs + 1
    /\ mode' = pc
    /\ preKind' = kind
    /\ preData' = data
    /\ err' = "none"
    /\ Enter(1)
    /\ UNCHANGED << kind, data, ro, edits, written >>

\* os.mkdir in the place of os.makedirs: no parent is ever created
NeedsParentNever(k, head) == FALSE

\* os.makedirs(name): "head and tail and not path.exists(head)"; tail is
\* never empty for the paths of the manifest.
NeedsParent(k, head) == head # "" /\ ~Exists(k, head)

\* os.makedirs(name): "if head and tail and not path.exists(head)", and the
\* recursive call on head when that holds.
MakedirsExists ==
    /\ pc = "makedirs"
    /\ step = "exists"
    /\ LET name == stack[Len(stack)]
           head == Dirname(name)
       IN  IF NeedsParent(kind, head)
           THEN /\ stack' = Append(stack, head)
                /\ step' = "exists"
           ELSE /\ stack' = stack
                /\ step' = "mkdir"
    /\ UNCHANGED << kind, data, ro, pc, idx, err,
                    preKind, preData, mode, runs, edits, written >>

\* os.makedirs(name) returns: to the calling os.makedirs, which goes on to
\* its own mkdir, or to the loop over directories.
MakedirsReturn ==
    IF Len(stack) > 1
    THEN /\ stack' = SubSeq(stack, 1, Len(stack) - 1)
         /\ step' = "mkdir"
         /\ UNCHANGED << pc, idx >>
    ELSE Advance

\* os.makedirs(name) raises OSError e: the calling os.makedirs swallows a
\* FileExistsError and goes on; anything else reaches the top level.
MakedirsRaise(e) ==
    IF Len(stack) > 1 /\ e = "EEXIST"
    THEN /\ stack' = SubSeq(stack, 1, Len(stack) - 1)
         /\ step' = "mkdir"
         /\ err' = "none"
         /\ UNCHANGED << pc, idx >>
    ELSE Raise(e)

\* os.makedirs(name): "mkdir(name, mode)"
MakedirsMkdir ==
    /\ pc = "makedirs"
    /\ step = "mkdir"
    /\ LET name == stack[Len(stack)]
           e == MkdirErrno(kind, ro, name)
       IN  IF e = "ok"
           THEN /\ kind' = [kind EXCEPT ![name] = "dir"]
                /\ err' = err
                /\ MakedirsReturn
           ELSE /\ kind' = kind
                /\ err' = e
                /\ step' = "isdir"
                /\ UNCHANGED << pc, idx, stack >>
    /\ UNCHANGED << data, ro, preKind, preData, mode, runs, edits, written >>

\* os.makedirs(name): "except OSError: if not exist_ok or not
\* path.isdir(name): raise"
MakedirsIsdir ==
    /\ pc = "makedirs"
    /\ step = "isdir"
    /\ LET name == stack[Len(stack)]
       IN  IF ~exist_ok \/ ~IsDir(kind, name)
           THEN MakedirsRaise(err)
           ELSE /\ err' = "none"
                /\ MakedirsReturn
    /\ UNCHANGED << kind, data, ro, preKind, preData, mode, runs, edits,
                    written >>

\* Path.touch(): "os.utime(self, None)"; on success touch returns, on
\* OSError it goes on to os.open.
TouchUtime ==
    /\ pc = "touch"
    /\ step = "utime"
    /\ LET path == Target(idx)
       IN  IF UtimeErrno(kind, path) = "ok"
           THEN /\ data' = UtimeData(kind, data, path)
                /\ Advance
           ELSE /\ data' = data
                /\ step' = "open"
                /\ UNCHANGED << pc, idx, stack >>
    /\ UNCHANGED << kind, ro, err, preKind, preData, mode, runs, edits,
                    written >>

\* Path.touch(): "fd = os.open(self, O_CREAT | O_WRONLY, mode); os.close(fd)"
TouchOpen ==
    /\ pc = "touch"
    /\ step = "open"
    /\ LET path == Target(idx)
           e == OpenErrno(kind, ro, path)
       IN  IF e = "ok"
           THEN /\ kind' = [kind EXCEPT ![path] = "file"]
                /\ data' = OpenData(kind, data, path)
                /\ err' = err
                /\ Advance
           ELSE /\ UNCHANGED << kind, data >>
                /\ Raise(e)
    /\ UNCHANGED << ro, preKind, preData, mode, runs, edits, written >>

Run ==
    \/ MakedirsExists
    \/ MakedirsMkdir
    \/ MakedirsIsdir
    \/ TouchUtime
    \/ TouchOpen

(* ---------------------------- environment ----------------------------- *)

\* Between runs somebody creates p with its missing parents, as "mkdir -p"
\* would: a directory (w: with write permission or without), or a file
\* holding c.
EnvCreate(p, k, c, w) ==
    /\ Finished
    /\ runs < MaxRuns
    /\ edits < MaxEnv
    /\ kind[p] = "absent"
    /\ \A a \in Ancestors(p) : kind[a] # "file"
    /\ k = "dir" => c = 0
    /\ ~w => (k = "dir" /\ p \in AllDirs)
    /\ kind' = [q \in Paths |->
                  IF q = p THEN k
                  ELSE IF q \in Ancestors(p) THEN "dir" ELSE kind[q]]
    /\ data' = [data EXCEPT ![p] = c]
    /\ ro' = IF w THEN ro ELSE ro \cup {p}
    /\ edits' = edits + 1
    /\ pc' = "idle"
    /\ UNCHANGED << step, idx, stack, err, preKind, preData, mode, runs,
                    written >>

\* Between runs somebody replaces the content of the file at p.
EnvWrite(p, c) ==
    /\ Finished
    /\ runs < MaxRuns
    /\ edits < MaxEnv
    /\ kind[p] = "file"
    /\ data[p] # c
    /\ data' = [data EXCEPT ![p] = c]
    /\ edits' = edits + 1
    /\ pc' = "idle"
    /\ UNCHANGED << kind, ro, step, idx, stack, err, preKind, preData, mode,
                    runs, written >>

\* Between runs somebody flips the write permission of directory d.
EnvChmod(d) ==
    /\ Finished
    /\ runs < MaxRuns
    /\ edits < MaxEnv
    /\ IsDir(kind, d)
    /\ ro' = IF d \in ro THEN ro \ {d} ELSE ro \cup {d}
    /\ edits' = edits + 1
    /\ pc' = "idle"
    /\ UNCHANGED << kind, data, step, idx, stack, err, preKind, preData, mode,
                    runs, written >>

\* After a failed run the causes of failure are removed: plain files that
\* sit where the manifest needs a directory are deleted and every directory
\* is made writable again.  What the failed run created stays.
Repair ==
    /\ pc = "failed"
    /\ kind' = [q \in Paths |->
                  IF q \in AllDirs /\ kind[q] = "file" THEN "absent"
                  ELSE kind[q]]
    /\ data' = [q \in Paths |->
                  IF q \in AllDirs /\ kind[q] = "file" THEN 0 ELSE data[q]]
    /\ ro' = {}
    /\ pc' = "repaired"
    /\ UNCHANGED << step, idx, stack, err, preKind, preData, mode, runs,
                    edits, written >>

\* Another process creates manifest path p, at any moment: a directory where
\* the manifest has a directory, a file holding c where it has a file.
ExtCreate(p, c) ==
    /\ edits < MaxEnv
    /\ kind[p] = "absent"
    /\ IsDir(kind, ParentDir(p))
    /\ p \in AllDirs => c = 0
    /\ kind' = [kind EXCEPT ![p] = IF p \in AllDirs THEN "dir" ELSE "file"]
    /\ data' = [data EXCEPT ![p] = c]
    /\ written' = [written EXCEPT ![p] = c]
    /\ edits' = edits + 1
    /\ UNCHANGED << ro, pc, step, idx, stack, err, preKind, preData, mode,
                    runs >>

Env ==
    \/ \E p \in Paths, k \in {"dir", "file"}, c \in Contents, w \in BOOLEAN :
          EnvCreate(p, k, c, w)
    \/ \E p \in Paths, c \in Contents : EnvWrite(p, c)
    \/ \E d \in AllDirs \cup {"."} : EnvChmod(d)
    \/ Repair

Ext == \E p \in Paths, c \in Contents : ExtCreate(p, c)

Next == Start \/ Run \/ Env

\* The function alone, the filesystem changing only between its runs.
Spec == Init /\ [][Next]_vars

NextConc == Start \/ Run \/ Ext

\* The function with another creating process interleaved at every step.
SpecConc == Init /\ [][NextConc]_vars


(* ------------------------------ properties ---------------------------- *)

\* A run is under way, or has just ended with nothing done to the
\* filesystem since.
Active == pc \in {"makedirs", "touch", "done", "failed"}

Running == pc \in {"makedirs", "touch"}

\* Every manifest directory is a directory, every manifest file is there.
Complete ==
    /\ \A d \in DirTargets : kind[d] = "dir"
    /\ \A f \in FileTargets : kind[f] # "absent"

\* The directory entries of the base directory.
TopEntries == { p \in Paths : Dirname(p) = base_path }

\* 6 directories, 4 marker files and 8 other files, all distinct.
ManifestSizes ==
    /\ Cardinality(DirTargets) = 6
    /\ Cardinality(MarkerTargets) = 4
    /\ Cardinality(OtherTargets) = 8
    /\ Cardinality(FileTargets) = 12

\* C1: a run that returns without error, from whatever the filesystem held
\* before, leaves the 6 manifest directories as directories and the 4 marker
\* files and 8 other files present (as regular files wherever no directory
\* sat at the path before); every file that was absent before is empty.
C1_Completeness ==
    pc = "done" =>
        /\ ManifestSizes
        /\ \A d \in DirTargets : kind[d] = "dir"
        /\ \A f \in FileTargets :
              /\ kind[f] # "absent"
              /\ preKind[f] # "dir" => kind[f] = "file"
              /\ preKind[f] = "absent" => (kind[f] = "file" /\ data[f] = 0)

\* A successful run that found one manifest file with content and had to
\* create others.
C1_Witness ==
    /\ pc = "done"
    /\ \E f \in FileTargets : preKind[f] = "file" /\ preData[f] > 0
    /\ \E f \in FileTargets : preKind[f] = "absent" /\ kind[f] = "file"
    /\ \E d \in DirTargets : preKind[d] = "absent"

\* C2: during a run and after it, successful or failed, first or repeated,
\* every path that existed when the run started has the kind and the content
\* it had then: nothing is deleted, overwritten or truncated.
C2_NonDestructive ==
    Active =>
        \A p \in Paths :
            preKind[p] # "absent" =>
                (kind[p] = preKind[p] /\ data[p] = preData[p])

\* A repeated run has finished over a manifest file that held bytes.
C2_Witness ==
    /\ pc = "done"
    /\ runs = 2
    /\ \E f \in OtherTargets :
          preKind[f] = "file" /\ preData[f] > 0 /\ data[f] = preData[f]

\* C3: a run that directly follows a successful run does not fail and leaves
\* the filesystem, kinds and contents, exactly as the first run left it.
C3_Idempotent ==
    (Active /\ mode = "done") =>
        /\ pc # "failed"
        /\ kind = preKind
        /\ data = preData

\* The second of two runs in succession has returned.
C3_Witness ==
    /\ pc = "done"
    /\ mode = "done"
    /\ runs = 2
    /\ Complete

\* C4: with a plain file where the manifest needs a directory (ap, ap/data,
\* ap/src or a manifest directory) the run never returns successfully, and
\* the file stays a file with its content.
C4_FileWhereDirectory ==
    (Active /\ \E d \in AllDirs : preKind[d] = "file") =>
        /\ pc # "done"
        /\ pc = "failed" => err \in {"ENOTDIR", "EEXIST", "EACCES"}
        /\ \A d \in AllDirs :
              preKind[d] = "file" =>
                  (kind[d] = "file" /\ data[d] = preData[d])

\* The run has failed on the plain file at ap/src.
C4_Witness ==
    /\ pc = "failed"
    /\ preKind["ap/src"] = "file"
    /\ kind["ap/src"] = "file"
    /\ err = "ENOTDIR"

\* C5: with a directory where the manifest needs a file, the run does not
\* complete successfully.
C5_DirectoryWhereFile ==
    (Active /\ \E f \in FileTargets : preKind[f] = "dir") => pc # "done"

\* The base directory was a read-only directory when the run started.
BaseReadOnly == preKind[base_path] = "dir" /\ base_path \in ro

Denied ==
    \/ /\ pc = "makedirs"
       /\ step = "isdir"
       /\ ~IsDir(kind, stack[Len(stack)])
       /\ Len(stack) = 1 \/ err # "EEXIST"
    \/ /\ pc = "touch"
       /\ step = "open"
       /\ OpenErrno(kind, ro, Target(idx)) # "ok"

\* What C7 says of a failed run: it stopped at entry idx with an errno, the
\* entries before it are on disk, the entries after it are as they were.
FailedInPlace ==
    pc = "failed" =>
        /\ err \in {"ENOENT", "ENOTDIR", "EEXIST", "EACCES", "EISDIR"}
        /\ \A j \in 1..(idx - 1) : Exists(kind, Target(j))
        /\ \A j \in (idx + 1)..NTotal :
              /\ kind[Target(j)] = preKind[Target(j)]
              /\ data[Target(j)] = preData[Target(j)]

\* C7: a request that cannot be served ends the run at once, at that entry
\* and with that error, without a further change; no later entry is touched;
\* and no step of a run removes or changes what is on disk, so what earlier
\* steps created remains.
C7_NonTransactional ==
    /\ []FailedInPlace
    /\ [][Denied => (pc' = "failed" /\ idx' = idx /\ kind' = kind
                       /\ data' = data)]_vars
    /\ [][Running =>
             \A p \in Paths :
                 kind[p] # "absent" =>
                     (kind'[p] = kind[p] /\ data'[p] = data[p])]_vars

\* A run has failed at a marker file after it created directories, which
\* are still there, and before it reached the other files.
C7_Witness ==
    /\ pc = "failed"
    /\ idx > NDirs
    /\ \E d \in DirTargets : preKind[d] = "absent" /\ kind[d] = "dir"
    /\ \E f \in OtherTargets : kind[f] = "absent"

\* C8: the run that follows a failed run and the removal of what made it
\* fail does not fail, ends with the complete manifest on disk, and leaves
\* every file that was there (created by the failed run or older) as it was.
C8_RetryAfterFailure ==
    (Active /\ mode = "repaired") =>
        /\ pc # "failed"
        /\ pc = "done" => Complete
        /\ \A p \in Paths :
              preKind[p] # "absent" =>
                  (kind[p] = preKind[p] /\ data[p] = preData[p])

\* The retry has returned over a prefix that the failed run had left.
C8_Witness ==
    /\ pc = "done"
    /\ mode = "repaired"
    /\ Complete
    /\ \E d \in DirTargets : preKind[d] = "dir"
    /\ \E d \in DirTargets : preKind[d] = "absent"

\* C9: with another process creating manifest paths between any two system
\* calls of the run, the run never fails, ends with every manifest directory
\* a directory and every manifest file a file, and the bytes that the other
\* process wrote are still in its files.
C9_ConcurrentCreation ==
    /\ pc # "failed"
    /\ pc = "done" =>
          /\ \A d \in DirTargets : kind[d] = "dir"
          /\ \A f \in FileTargets : kind[f] = "file"
    /\ \A p \in Paths :
          written[p] > 0 => (kind[p] = "file" /\ data[p] = written[p])

\* The run has returned, and a file that was absent when it started holds
\* what the other process wrote while it ran.
C9_Witness ==
    /\ pc = "done"
    /\ \E f \in FileTargets :
          preKind[f] = "absent" /\ written[f] > 0 /\ data[f] = written[f]

\* Every parent of a manifest file is the base directory, a manifest
\* directory or a directory above one; ap/src is not a manifest directory.
ParentsCovered ==
    /\ \A f \in FileTargets :
          ParentDir(f) \in ({base_path} \cup DirTargets
                            \cup UNION { Ancestors(d) : d \in DirTargets })
    /\ Join(base_path, "src") \notin DirTargets

\* C10: every parent of a manifest file is the base directory, a manifest
\* directory or a parent of one (ap/src is only the latter); whenever a run
\* is at a file its parent is a directory; no run fails at a file for a
\* missing parent; a run from an empty, writable working directory does not
\* fail.
C10_ParentBeforeChild ==
    /\ ParentsCovered
    /\ pc = "touch" => IsDir(kind, ParentDir(Target(idx)))
    /\ (pc = "failed" /\ idx > NDirs) => err \notin {"ENOENT", "ENOTDIR"}
    /\ (Active /\ ro = {} /\ \A p \in Paths : preKind[p] = "absent") =>
          pc # "failed"

\* A run from an empty working directory is about to create ap/src/__init__.py
\* inside ap/src, which only the creation of ap/src/data_processing made.
C10_Witness ==
    /\ pc = "touch"
    /\ step = "open"
    /\ Target(idx) = "ap/src/__init__.py"
    /\ \A p \in Paths : preKind[p] = "absent"
    /\ kind["ap/src"] = "dir"

====
